---- MODULE Spec2Model ----
(***************************************************************************)
(* Focus navigation and expand/collapse state of the Tree widget           *)
(* (Tree / TreeGroup / TreeItem).                                          *)
(*                                                                         *)
(* The rendered DOM is an <ol role="tree"> holding <li role="treeitem">    *)
(* elements; a TreeItem may hold one TreeGroup, rendered as an             *)
(* <ol role="group"> holding the group's own <li> elements.  The handlers  *)
(* walk that DOM (nextSibling, previousSibling, parentNode, firstChild,    *)
(* getElementsByTagName) and move the document's focus with moveTo.        *)
(*                                                                         *)
(* The other widgets of the library that keep a state of their own are     *)
(* modelled beside the Tree: the Menu with its SubMenus, the Slider, the   *)
(* ProgressBar and the Carousel.  Each is mounted by a specification of    *)
(* its own.                                                                *)
(***************************************************************************)
EXTENDS Integers, Sequences, FiniteSets, TLC

\* The largest number of TreeItems in a mounted tree.
MaxItems == 4

VARIABLES
    owner,       \* owner[i]: the TreeItem whose TreeGroup holds TreeItem i (0: the Tree)
    groups,      \* the TreeItems that hold a TreeGroup
    expandable,  \* expandable[g]: this.expandable of the group of item g (0: the Tree)
    expanded,    \* expanded[g]: this.state.expanded of the group of item g (0: the Tree)
    error,       \* the groups whose constructor set this.error (0: the Tree)
    dom,         \* the elements the Tree's components have rendered
    focus,       \* document.activeElement
    last,        \* the last event: the mount with the groups' props.expanded, or a
                 \* handler's run with its key, its target and the state before it
    menu,        \* menu[k]: the number of MenuItems of the SubMenu that is the
                 \* Menu's k-th child; 0 when the k-th child is a MenuItem
    menuExpanded,\* menuExpanded[k]: state.expanded of SubMenu k (0: the Menu)
    labels,      \* labels[k]: the label of link k, a sequence of characters
    buffer,      \* buffer[k]: this.buffer of SubMenu k (0: the Menu), the typed prefix
    slider,      \* the Slider: this.min, this.max, this.step and the input's value
    bar,         \* the ProgressBar: its props and the width render() gave it
    carousel,    \* the Carousel: state.playing, this.timer, the interval timers
                 \* that are set and not cleared, and the current item
    goal         \* the TreeItem the user is navigating to (0: none)

vars == <<owner, groups, expandable, expanded, error, dom, focus, last,
          menu, menuExpanded, labels, buffer, slider, bar, carousel,
          goal>>

\* The state of the Tree and the state of the other widgets.
tree == <<owner, groups, expandable, expanded, error, dom, goal>>

widgets == <<menu, menuExpanded, labels, buffer, slider, bar, carousel>>

----------------------------------------------------------------------------
(* DOM nodes *)

Null == [kind |-> "null", id |-> 0]
Body == [kind |-> "body", id |-> 0]
Container == [kind |-> "container", id |-> 0]
None == [kind |-> "none", id |-> 0]
TreeEl == [kind |-> "tree", id |-> 0]

\* The <h1>Unable to render tree</h1> a group renders in place of its <ol>.
ErrorEl(g) == [kind |-> "h1", id |-> g]

Li(i) == [kind |-> "li", id |-> i]

Ol(g) == [kind |-> "ol", id |-> g]

\* The element a group component renders: the Tree's <ol> or a TreeGroup's.
Element(g) == IF g = 0 THEN TreeEl ELSE Ol(g)

Items == DOMAIN owner

\* The TreeItems of the group of item g, in document order.
ChildItems(g) == {i \in Items : owner[i] = g}

Min(S) == CHOOSE x \in S : \A y \in S : x <= y

Max(S) == CHOOSE x \in S : \A y \in S : x >= y

nextSibling(node) ==
    IF node.kind = "li"
    THEN LET later == {j \in ChildItems(owner[node.id]) : j > node.id}
         IN  IF later = {} THEN Null ELSE Li(Min(later))
    ELSE Null

previousSibling(node) ==
    IF node.kind = "li"
    THEN LET earlier == {j \in ChildItems(owner[node.id]) : j < node.id}
         IN  IF earlier = {} THEN Null ELSE Li(Max(earlier))
    ELSE Null

parentNode(node) ==
    IF node.kind = "li" THEN Element(owner[node.id])
    ELSE IF node.kind = "ol" THEN Li(node.id)
    ELSE IF node.kind = "tree" THEN Container
    ELSE Null

firstChild(node) ==
    IF node.kind \in {"ol", "tree"}
    THEN LET c == ChildItems(node.id)
         IN  IF c = {} THEN Null ELSE Li(Min(c))
    ELSE Null

\* element.getElementsByTagName('ol') of a TreeItem's <li>, in document order:
\* the item's own group comes first; an item without a group has no <ol> below it.
getElementsByTagName_ol(i) ==
    IF i \in groups THEN <<Ol(i)>> ELSE <<>>

----------------------------------------------------------------------------
(* TreeGroup: construction and rendering *)

Hints == {"undefined", "true", "false"}

\* A constructor that does not read props.expanded.
TreeGroup_constructor_hintIgnored(items, h) ==
    [expandable |-> items > 1,
     expanded   |-> items # 0]

\* The constructor's count of valid children, this.expandable and state.expanded.
TreeGroup_constructor(items, h) ==
    [expandable |-> items > 1,
     expanded   |-> ~(h = "false" \/ items = 0)]

\* The aria-expanded attribute render() puts on the group's <ol>; "null" when
\* render() leaves the attribute out.
AriaExpanded(g) ==
    IF expandable[g] \/ expanded[g]
    THEN (IF expanded[g] THEN "true" ELSE "false")
    ELSE "null"

\* The role attribute render() gives the element.
Role(node) ==
    IF node.kind = "ol" THEN "group"
    ELSE IF node.kind = "tree" THEN "tree"
    ELSE IF node.kind = "li" THEN "treeitem"
    ELSE "null"

RECURSIVE TreeItem_render(_), TreeGroup_render(_)
\* render() of a TreeItem: its <li> around its children, whatever they are.
TreeItem_render(i) ==
    {Li(i)} \cup (IF i \in groups THEN TreeGroup_render(i) ELSE {})

\* render() of a TreeGroup: the error heading when the constructor found an
\* invalid child, the <ol> around the children otherwise.
TreeGroup_render(g) ==
    IF g \in error
    THEN {ErrorEl(g)}
    ELSE {Ol(g)} \cup UNION {TreeItem_render(i) : i \in ChildItems(g)}

----------------------------------------------------------------------------
(* What a handler leaves behind: the focused element, the groups' expanded *)
(* state, the node it handed to moveTo (None when it called no moveTo)     *)
(* and whether it ended in a TypeError.                                    *)

Outcome(f, e, to, err) == [focus |-> f, expanded |-> e, to |-> to, error |-> err]

NoOp == Outcome(focus, expanded, None, FALSE)

\* A moveTo that focuses whatever node it is handed, rendered by React or not.
moveTo_anyNode(node) ==
    IF node = Null THEN Outcome(focus, expanded, node, TRUE)
    ELSE Outcome(node, expanded, node, FALSE)

\* moveTo(node): Object.keys(null) throws a TypeError; an element rendered by a
\* TreeItem, a TreeGroup or the Tree carries the React instance key and its owner
\* has a focus method, which focuses the element; the container the tree is
\* mounted in carries no such key, so the loop does nothing.
moveTo(node) ==
    IF node = Null THEN Outcome(focus, expanded, node, TRUE)
    ELSE IF node.kind \in {"li", "ol", "tree"} THEN Outcome(node, expanded, node, FALSE)
    ELSE Outcome(focus, expanded, node, FALSE)

----------------------------------------------------------------------------
(* TreeItem *)

\* A next that takes the sibling only when the item has no group at all.
TreeItem_next_noExpandedCheck(i) ==
    LET el == nextSibling(Li(i))
        subtree == getElementsByTagName_ol(i)
        group == IF Len(subtree) > 0 THEN Role(subtree[1]) = "group" ELSE FALSE
    IN  IF el # Null /\ ~group THEN moveTo(el)
        ELSE IF group THEN moveTo(subtree[1])
        ELSE moveTo(nextSibling(parentNode(parentNode(Li(i)))))

\* A next that stays where it is when the item has neither sibling nor group.
TreeItem_next_noClimb(i) ==
    LET el == nextSibling(Li(i))
        subtree == getElementsByTagName_ol(i)
        group == IF Len(subtree) > 0 THEN Role(subtree[1]) = "group" ELSE FALSE
        isExpanded == IF Len(subtree) > 0 THEN AriaExpanded(subtree[1].id) = "true" ELSE FALSE
    IN  IF el # Null /\ (~group \/ isExpanded) THEN moveTo(el)
        ELSE IF group THEN moveTo(subtree[1])
        ELSE NoOp

\* A next that prefers the sibling whatever the state of the item's group.
TreeItem_next_siblingFirst(i) ==
    LET el == nextSibling(Li(i))
        subtree == getElementsByTagName_ol(i)
        group == IF Len(subtree) > 0 THEN Role(subtree[1]) = "group" ELSE FALSE
    IN  IF el # Null THEN moveTo(el)
        ELSE IF group THEN moveTo(subtree[1])
        ELSE moveTo(nextSibling(parentNode(parentNode(Li(i)))))

TreeItem_next(i) ==
    LET el == nextSibling(Li(i))
        subtree == getElementsByTagName_ol(i)
        group == IF Len(subtree) > 0 THEN Role(subtree[1]) = "group" ELSE FALSE
        isExpanded == IF Len(subtree) > 0 THEN AriaExpanded(subtree[1].id) = "true" ELSE FALSE
    IN  IF el # Null /\ (~group \/ isExpanded) THEN moveTo(el)
        ELSE IF group THEN moveTo(subtree[1])
        ELSE moveTo(nextSibling(parentNode(parentNode(Li(i)))))

\* A previous that always goes to the parent node.
TreeItem_previous_parentOnly(i) == moveTo(parentNode(Li(i)))

TreeItem_previous(i) ==
    LET el == IF previousSibling(Li(i)) # Null
              THEN previousSibling(Li(i))
              ELSE parentNode(Li(i))
    IN  moveTo(el)

\* A stepInto that tries the sibling before the group.
TreeItem_stepInto_siblingFirst(i) ==
    LET el == nextSibling(Li(i))
        subtree == getElementsByTagName_ol(i)
        group == IF Len(subtree) > 0 THEN Role(subtree[1]) = "group" ELSE FALSE
    IN  IF el # Null THEN moveTo(el)
        ELSE IF group THEN moveTo(subtree[1])
        ELSE moveTo(nextSibling(parentNode(parentNode(Li(i)))))

TreeItem_stepInto(i) ==
    LET el == nextSibling(Li(i))
        subtree == getElementsByTagName_ol(i)
        group == IF Len(subtree) > 0 THEN Role(subtree[1]) = "group" ELSE FALSE
    IN  IF group THEN moveTo(subtree[1])
        ELSE IF el # Null THEN moveTo(el)
        ELSE moveTo(nextSibling(parentNode(parentNode(Li(i)))))

\* Shortcuts that treat a key without an entry as ArrowDown.
TreeItem_shortcuts_defaultNext(i, key) ==
    IF key = "ArrowLeft" THEN TreeItem_previous(i)
    ELSE IF key = "ArrowRight" THEN TreeItem_stepInto(i)
    ELSE IF key = "ArrowUp" THEN TreeItem_previous(i)
    ELSE TreeItem_next(i)

\* this.shortcuts of a TreeItem, applied to a key; a key without an entry does nothing.
TreeItem_shortcuts(i, key) ==
    IF key = "ArrowDown" THEN TreeItem_next(i)
    ELSE IF key = "ArrowLeft" THEN TreeItem_previous(i)
    ELSE IF key = "ArrowRight" THEN TreeItem_stepInto(i)
    ELSE IF key = "ArrowUp" THEN TreeItem_previous(i)
    ELSE NoOp

----------------------------------------------------------------------------
(* TreeGroup *)

TreeGroup_collapse(g) ==
    IF expandable[g] /\ expanded[g]
    THEN Outcome(Ol(g), [expanded EXCEPT ![g] = FALSE], None, FALSE)
    ELSE NoOp

\* An expand that does not ask whether the group is expandable.
TreeGroup_expand_unguarded(g) ==
    IF ~expanded[g]
    THEN Outcome(focus, [expanded EXCEPT ![g] = TRUE], None, FALSE)
    ELSE NoOp

TreeGroup_expand(g) ==
    IF expandable[g] /\ ~expanded[g]
    THEN Outcome(focus, [expanded EXCEPT ![g] = TRUE], None, FALSE)
    ELSE NoOp

\* A next that enters the group.
TreeGroup_next_intoGroup(g) == moveTo(firstChild(Ol(g)))

TreeGroup_next(g) == moveTo(nextSibling(parentNode(Ol(g))))

\* A previous that collapses the group it leaves.
TreeGroup_previous_collapsing(g) ==
    Outcome(moveTo(parentNode(Ol(g))).focus, [expanded EXCEPT ![g] = FALSE],
            parentNode(Ol(g)), FALSE)

TreeGroup_previous(g) == moveTo(parentNode(Ol(g)))

\* A stepInto that leaves the focus on the group.
TreeGroup_stepInto_stay(g) == NoOp

TreeGroup_stepInto(g) == moveTo(firstChild(Ol(g)))

\* A toggle that only ever collapses.
TreeGroup_toggle_collapseOnly(g) == TreeGroup_collapse(g)

TreeGroup_toggle(g) ==
    IF expanded[g] THEN TreeGroup_collapse(g) ELSE TreeGroup_expand(g)

\* The ArrowRight shortcut: expand() and then stepInto(); the state update
\* expand() queued is applied even when stepInto() throws.
TreeGroup_ArrowRight(g) ==
    LET e == TreeGroup_expand(g)
        s == TreeGroup_stepInto(g)
    IN  Outcome(s.focus, e.expanded, s.to, s.error)

TreeGroup_shortcuts(g, key) ==
    IF key = "ArrowDown" THEN TreeGroup_next(g)
    ELSE IF key = "ArrowLeft" THEN TreeGroup_collapse(g)
    ELSE IF key = "ArrowRight" THEN TreeGroup_ArrowRight(g)
    ELSE IF key = "ArrowUp" THEN TreeGroup_previous(g)
    ELSE IF key = "Enter" THEN TreeGroup_toggle(g)
    ELSE NoOp

----------------------------------------------------------------------------
(* Tree: the root <ol role="tree">.  Its handlers follow the Tree's tests:  *)
(* expandable and expanded as a TreeGroup, ArrowDown and ArrowRight focus   *)
(* the first item, ArrowUp leaves the focus alone, ArrowLeft collapses,     *)
(* Enter and a click toggle.                                                *)

Tree_collapse ==
    IF expandable[0] /\ expanded[0]
    THEN Outcome(TreeEl, [expanded EXCEPT ![0] = FALSE], None, FALSE)
    ELSE NoOp

Tree_expand ==
    IF expandable[0] /\ ~expanded[0]
    THEN Outcome(focus, [expanded EXCEPT ![0] = TRUE], None, FALSE)
    ELSE NoOp

Tree_toggle == IF expanded[0] THEN Tree_collapse ELSE Tree_expand

Tree_stepInto == moveTo(firstChild(TreeEl))

Tree_previous == moveTo(parentNode(TreeEl))

\* The Tree shows the same heading for an invalid child of its own.
Tree_render ==
    IF 0 \in error
    THEN {ErrorEl(0)}
    ELSE {TreeEl} \cup UNION {TreeItem_render(i) : i \in ChildItems(0)}

Tree_shortcuts(key) ==
    IF key = "ArrowDown" THEN Tree_stepInto
    ELSE IF key = "ArrowLeft" THEN Tree_collapse
    ELSE IF key = "ArrowRight"
         THEN Outcome(Tree_stepInto.focus, Tree_expand.expanded,
                      Tree_stepInto.to, Tree_stepInto.error)
    ELSE IF key = "ArrowUp" THEN Tree_previous
    ELSE IF key = "Enter" THEN Tree_toggle
    ELSE NoOp

----------------------------------------------------------------------------
(* Mounting: the trees the components are constructed from *)

RECURSIVE OnPath(_, _, _)
\* Whether a is item j, one of the items above it, or the Tree (0).
OnPath(o, a, j) ==
    IF a = j THEN TRUE
    ELSE IF j = 0 THEN FALSE
    ELSE OnPath(o, a, o[j])

\* The trees of n TreeItems, the items numbered in document order: item 1 is the
\* Tree's first child, and each later item is a child of the item before it or
\* of one of the groups that item lies in.
Shapes(n) ==
    {o \in [1..n -> 0..(n - 1)] :
        /\ o[1] = 0
        /\ \A i \in 2..n : o[i] < i /\ OnPath(o, o[i], i - 1)}

\* The keys delivered to the tree: those the shortcuts map, and two they do not.
Keys == {"ArrowDown", "ArrowLeft", "ArrowRight", "ArrowUp", "Enter", "A", "Escape"}

\* The record of a handler's run: the key (or "click", "focus"), the element it
\* was delivered to, the groups' expanded state before it, the node it handed to
\* moveTo and whether it threw.  props is filled by the mount alone.
Event(key, target, before, out) ==
    [key |-> key, target |-> target, expanded |-> before,
     to |-> out.to, error |-> out.error, props |-> <<>>, buffer |-> <<>>]

\* No Menu, no Slider and no ProgressBar is mounted.
NoMenu == menu = <<>> /\ menuExpanded = <<>> /\ labels = <<>> /\ buffer = <<>>

NoSlider == slider = <<>>

NoBar == bar = <<>>

NoCarousel == carousel = <<>>

\* The components of a tree are constructed; f is the element that holds the
\* focus when the first event arrives.
Construct(f) ==
    \E n \in 1..MaxItems :
      \E o \in Shapes(n) :
        \E gs \in SUBSET (1..n) :
          \E h \in [gs -> Hints] :
            /\ \A i \in 1..n : o[i] # 0 => o[i] \in gs
            /\ owner = o
            /\ groups = gs
            /\ expandable = [g \in gs \cup {0} |->
                 TreeGroup_constructor(Cardinality({i \in 1..n : o[i] = g}),
                     IF g = 0 THEN "undefined" ELSE h[g]).expandable]
            /\ expanded = [g \in gs \cup {0} |->
                 TreeGroup_constructor(Cardinality({i \in 1..n : o[i] = g}),
                     IF g = 0 THEN "undefined" ELSE h[g]).expanded]
            /\ focus = f
            /\ last = [key |-> "mount", target |-> Body, expanded |-> expanded,
                       to |-> None, error |-> FALSE, props |-> h, buffer |-> <<>>]
            /\ NoMenu /\ NoSlider /\ NoBar /\ NoCarousel

\* A tree whose groups hold TreeItems only is mounted straight into its
\* container, as the tests mount it, and rendered.
Mount(f) ==
    /\ Construct(f)
    /\ error = {}
    /\ dom = Tree_render
    /\ goal = 0

\* After mounting nothing in the tree is focused.
Init == Mount(Body)

\* The user has tabbed to the tree's first TreeItem.
InitKeys == Mount(Li(1))

\* The outcome of a handler becomes the next state.
Apply(key, target, out) ==
    /\ focus' = out.focus
    /\ expanded' = out.expanded
    /\ last' = Event(key, target, expanded, out)
    /\ UNCHANGED <<owner, groups, expandable, error, dom, goal, widgets>>

\* focus() of a TreeItem, a TreeGroup or the Tree: this.element.focus().
Focus(node) ==
    /\ Apply("focus", node, Outcome(node, expanded, None, FALSE))

TreeItem_onKeyDown(key) ==
    /\ focus.kind = "li"
    /\ Apply(key, focus, TreeItem_shortcuts(focus.id, key))

TreeGroup_onKeyDown(key) ==
    /\ focus.kind = "ol"
    /\ Apply(key, focus, TreeGroup_shortcuts(focus.id, key))

TreeGroup_onClick(g) ==
    /\ Apply("click", Ol(g), TreeGroup_toggle(g))

Tree_onKeyDown(key) ==
    /\ focus.kind = "tree"
    /\ Apply(key, focus, Tree_shortcuts(key))

Tree_onClick ==
    /\ TreeEl \in dom
    /\ Apply("click", TreeEl, Tree_toggle)

Nodes == dom

Next ==
    \/ \E node \in Nodes : Focus(node)
    \/ \E key \in Keys : TreeItem_onKeyDown(key)
    \/ \E key \in Keys : TreeGroup_onKeyDown(key)
    \/ \E g \in groups : TreeGroup_onClick(g)
    \/ \E key \in Keys : Tree_onKeyDown(key)
    \/ Tree_onClick

Spec == Init /\ [][Next]_vars

\* Keyboard commands and clicks alone, from the first TreeItem.
NextKeys ==
    \/ \E key \in Keys : TreeItem_onKeyDown(key)
    \/ \E key \in Keys : TreeGroup_onKeyDown(key)
    \/ \E g \in groups : TreeGroup_onClick(g)
    \/ \E key \in Keys : Tree_onKeyDown(key)
    \/ Tree_onClick

SpecKeys == InitKeys /\ [][NextKeys]_vars

----------------------------------------------------------------------------
(* A user who navigates from the first TreeItem to a TreeItem of their      *)
(* choice with the arrow keys alone.                                        *)

\* The TreeItem among i and its siblings that is the goal or holds it.
Toward(i) ==
    CHOOSE s \in 1..Len(owner) : owner[s] = owner[i] /\ OnPath(owner, s, goal)

\* The key the user presses: ArrowRight to enter the group that holds the goal,
\* ArrowDown or ArrowUp to walk to the sibling that is the goal or holds it,
\* ArrowUp to leave a group that does not hold it.
Strategy ==
    LET i == focus.id
    IN  IF OnPath(owner, i, goal) THEN "ArrowRight"
        ELSE IF OnPath(owner, owner[i], goal) /\ Toward(i) > i THEN "ArrowDown"
        ELSE "ArrowUp"

InitReach ==
    /\ Construct(Li(1))
    /\ error = {}
    /\ dom = Tree_render
    /\ goal \in 1..Len(owner)

NavigateFromItem ==
    /\ focus # Li(goal)
    /\ TreeItem_onKeyDown(Strategy)

NavigateFromGroup ==
    /\ focus # Li(goal)
    /\ TreeGroup_onKeyDown(Strategy)

NextReach == NavigateFromItem \/ NavigateFromGroup

\* The user keeps pressing keys until the goal has the focus.
SpecReach == InitReach /\ [][NextReach]_vars /\ WF_vars(NextReach)

----------------------------------------------------------------------------
(* Mounting a tree whose groups may hold children of other types *)

\* The constructors have run: any group, the Tree included, may have found a
\* child that is not a TreeItem; nothing is rendered yet.
InitRender ==
    /\ Construct(Body)
    /\ error \in SUBSET (groups \cup {0})
    /\ dom = {}
    /\ goal = 0

\* React renders the components from the Tree down.
Render ==
    /\ dom = {}
    /\ dom' = Tree_render
    /\ last' = [last EXCEPT !.key = "render"]
    /\ UNCHANGED <<owner, groups, expandable, expanded, error, focus, goal, widgets>>

SpecRender == InitRender /\ [][Render]_vars

----------------------------------------------------------------------------
(* Menu and SubMenu.  The Menu renders a <ul> of <li> children: a MenuItem *)
(* renders one link (an <a> or a <button>), a SubMenu renders its          *)
(* controller <button> and a <ul> of its own children.  The links are      *)
(* numbered in document order, a SubMenu by its controller.                *)

\* The largest number of links (MenuItems and SubMenu controllers) in a Menu.
MaxLinks == 4

\* The link of a MenuItem, or the controller button of a SubMenu.
Link(n) == [kind |-> "link", id |-> n]

Links == {Link(n) : n \in DOMAIN menu}

\* What activeIndex returns when no item holds the focus: undefined.
Undefined == -1

\* The result of a key handler: the focused element, the components' expanded
\* state, their type-ahead buffers and whether the handler stopped the event's
\* propagation.
Handled(f, e, b, stop) == [focus |-> f, expanded |-> e, buffer |-> b, stop |-> stop]

\* Characters: the letters of the Latin alphabet in both cases.
UpperCase == <<"A", "B", "C", "D", "E", "F", "G", "H", "I", "J", "K", "L", "M",
               "N", "O", "P", "Q", "R", "S", "T", "U", "V", "W", "X", "Y", "Z">>

LowerCase == <<"a", "b", "c", "d", "e", "f", "g", "h", "i", "j", "k", "l", "m",
               "n", "o", "p", "q", "r", "s", "t", "u", "v", "w", "x", "y", "z">>

\* [a-z] under the i flag: any letter of either case.
IsLetter(c) == \E i \in DOMAIN UpperCase : c = UpperCase[i] \/ c = LowerCase[i]

\* The case folding the i flag of a RegExp applies before it compares.
Lower(c) ==
    IF \E i \in DOMAIN UpperCase : c = UpperCase[i]
    THEN LowerCase[CHOOSE i \in DOMAIN UpperCase : c = UpperCase[i]]
    ELSE c

\* The characters of a key name as KeyboardEvent.key delivers it, one after
\* the other: the string is taken apart position by position.
Chars(key) == [i \in 1..Len(key) |-> SubSeq(key, i, i)]

\* /^[a-z]{1}$/i.test(key): the key name is exactly one letter.
SingleLetter(key) == Len(Chars(key)) = 1 /\ IsLetter(Chars(key)[1])

\* /[a-z]/i.test(key): the key name has a letter somewhere.
HasLetter(key) == \E i \in DOMAIN Chars(key) : IsLetter(Chars(key)[i])

\* new RegExp('^' + match, 'i').test(text) for a match made of letters.
StartsWith(text, match) ==
    /\ Len(match) <= Len(text)
    /\ \A i \in 1..Len(match) : Lower(text[i]) = Lower(match[i])


\* Whether the <li> of link n contains the element f.
Contains(n, f) == f.kind = "link" /\ OnPath(menu, n, f.id)

\* items of a SubMenu: the child nodes of its <ul>, in document order.
SubMenu_items(S) ==
    LET list == {n \in DOMAIN menu : menu[n] = S}
    IN  [i \in 1..Cardinality(list) |->
            CHOOSE n \in list : Cardinality({m \in list : m < n}) = i - 1]

RECURSIVE textContent(_), textFrom(_, _)
\* The text of the items ns[k], ns[k + 1], ... one after the other.
textFrom(ns, k) ==
    IF k > Len(ns) THEN <<>> ELSE textContent(ns[k]) \o textFrom(ns, k + 1)

\* textContent of the <li> of link n: the label of its link, followed for a
\* SubMenu by the text of every item of its <ul>.
textContent(n) == labels[n] \o textFrom(SubMenu_items(n), 1)

\* activeIndex: the index, counted from 0, of the item that contains the
\* document's active element f.
SubMenu_activeIndex(S, f) ==
    LET list == SubMenu_items(S)
        hits == {i \in 1..Len(list) : Contains(list[i], f)}
    IN  IF hits = {} THEN Undefined ELSE Max(hits) - 1

SubMenu_controller(S) == Link(S)

SubMenu_first(S, f) ==
    LET items == SubMenu_items(S)
    IN  IF Len(items) # 0 THEN Link(items[1]) ELSE f

SubMenu_focus(S, f) == SubMenu_controller(S)

SubMenu_last(S, f) ==
    LET items == SubMenu_items(S)
    IN  IF Len(items) # 0 THEN Link(items[Len(items)]) ELSE f

\* A select that stops at the ends of the list.
SubMenu_select_clamped(S, ndx, f) ==
    LET lastIndex == Len(SubMenu_items(S)) - 1
        i == IF ndx < 0 THEN 0 ELSE IF ndx > lastIndex THEN lastIndex ELSE ndx
    IN  Link(SubMenu_items(S)[i + 1])

\* select(ndx): below 0 wraps to the last item, above the last to the first;
\* the first <a> or <button> of the item takes the focus.
SubMenu_select(S, ndx, f) ==
    LET lastIndex == Len(SubMenu_items(S)) - 1
        i == IF ndx < 0 THEN lastIndex ELSE IF ndx > lastIndex THEN 0 ELSE ndx
    IN  Link(SubMenu_items(S)[i + 1])

SubMenu_next(S, f) ==
    LET i == SubMenu_activeIndex(S, f)
    IN  IF i # Undefined THEN SubMenu_select(S, i + 1, f) ELSE f

SubMenu_prev(S, f) ==
    LET i == SubMenu_activeIndex(S, f)
    IN  IF i # Undefined THEN SubMenu_select(S, i - 1, f) ELSE f

\* search(key): the items from the active one (the first when none is active)
\* to the last are tested against the buffer followed by the key; the first
\* that matches is selected and the buffer extended, and when none matches the
\* buffer is emptied.
SubMenu_search(S, key, f, e, b) ==
    LET match == b[S] \o Chars(key)
        items == SubMenu_items(S)
        active == SubMenu_activeIndex(S, f)
        start == IF active = Undefined THEN 0 ELSE active
        hits == {i \in start..(Len(items) - 1) :
                    StartsWith(textContent(items[i + 1]), match)}
    IN  IF hits # {}
        THEN Handled(SubMenu_select(S, Min(hits), f), e,
                     [b EXCEPT ![S] = match], FALSE)
        ELSE Handled(f, e, [b EXCEPT ![S] = <<>>], FALSE)

SubMenu_toggle(S, e) == [e EXCEPT ![S] = ~e[S]]

\* An Escape branch that closes the SubMenu and leaves the focus in its list.
SubMenu_onKeyDown_escapeKeepsFocus(S, key, target, f, e, b) ==
    IF key = "Escape" THEN Handled(f, [e EXCEPT ![S] = FALSE], b, TRUE)
    ELSE Handled(f, e, b, FALSE)

\* onKeyDown of a SubMenu, on its controller and on its <ul>: f and e are the
\* active element and the expanded states when the handler starts.
SubMenu_onKeyDown(S, key, target, f, e, b) ==
    IF key = "ArrowDown"
    THEN Handled(IF target = SubMenu_controller(S)
                 THEN SubMenu_first(S, f) ELSE SubMenu_next(S, f),
                 [e EXCEPT ![S] = TRUE], b, TRUE)
    ELSE IF key = "ArrowLeft"
    THEN IF target = SubMenu_controller(S) THEN Handled(f, e, b, FALSE)
         ELSE IF SubMenu_activeIndex(S, f) \notin {Undefined, 0}
              THEN Handled(SubMenu_prev(S, f), e, b, TRUE)
              ELSE Handled(SubMenu_focus(S, f), e, b, TRUE)
    ELSE IF key = "ArrowRight"
    THEN IF target = SubMenu_controller(S) THEN Handled(f, e, b, FALSE)
         ELSE IF SubMenu_activeIndex(S, f) # Len(SubMenu_items(S)) - 1
              THEN Handled(SubMenu_next(S, f), e, b, TRUE)
              ELSE Handled(SubMenu_focus(S, f), e, b, TRUE)
    ELSE IF key = "ArrowUp"
    THEN IF target # SubMenu_controller(S)
         THEN Handled(SubMenu_prev(S, f), e, b, TRUE)
         ELSE Handled(f, e, b, FALSE)
    ELSE IF key \in {"Enter", "Space"}
    THEN Handled(f, e, b, FALSE)
    ELSE IF key = "Home"
    THEN Handled(SubMenu_first(S, f), [e EXCEPT ![S] = TRUE], b, TRUE)
    ELSE IF key = "End"
    THEN Handled(SubMenu_last(S, f), [e EXCEPT ![S] = TRUE], b, TRUE)
    ELSE IF key = "Escape"
    THEN Handled(SubMenu_focus(S, f), [e EXCEPT ![S] = FALSE], b, TRUE)
    ELSE IF key = "Tab"
    THEN Handled(f, e, [b EXCEPT ![S] = <<>>], FALSE)
    ELSE IF SingleLetter(key) THEN SubMenu_search(S, key, f, e, b)
    ELSE Handled(f, e, b, FALSE)

\* The Menu's own list.
Menu_items == SubMenu_items(0)

Menu_activeIndex(f) ==
    LET list == Menu_items
        hits == {i \in 1..Len(list) : Contains(list[i], f)}
    IN  IF hits = {} THEN Undefined ELSE Max(hits) - 1

Menu_first(f) == IF Len(Menu_items) # 0 THEN Link(Menu_items[1]) ELSE f

Menu_focus(f) == Menu_first(f)

Menu_last(f) == IF Len(Menu_items) # 0 THEN Link(Menu_items[Len(Menu_items)]) ELSE f

\* A select that stops at the ends of the list.
Menu_select_clamped(ndx, f) ==
    LET lastIndex == Len(Menu_items) - 1
        i == IF ndx < 0 THEN 0 ELSE IF ndx > lastIndex THEN lastIndex ELSE ndx
    IN  Link(Menu_items[i + 1])

Menu_select(ndx, f) ==
    LET lastIndex == Len(Menu_items) - 1
        i == IF ndx < 0 THEN lastIndex ELSE IF ndx > lastIndex THEN 0 ELSE ndx
    IN  Link(Menu_items[i + 1])

Menu_next(f) ==
    LET i == Menu_activeIndex(f)
    IN  IF i # Undefined THEN Menu_select(i + 1, f) ELSE f

Menu_prev(f) ==
    LET i == Menu_activeIndex(f)
    IN  IF i # Undefined THEN Menu_select(i - 1, f) ELSE f

Menu_search(key, f, e, b) ==
    LET match == b[0] \o Chars(key)
        items == Menu_items
        active == Menu_activeIndex(f)
        start == IF active = Undefined THEN 0 ELSE active
        hits == {i \in start..(Len(items) - 1) :
                    StartsWith(textContent(items[i + 1]), match)}
    IN  IF hits # {}
        THEN Handled(Menu_select(Min(hits), f), e, [b EXCEPT ![0] = match], FALSE)
        ELSE Handled(f, e, [b EXCEPT ![0] = <<>>], FALSE)

\* onKeyDown of the Menu, on its <ul>.
Menu_onKeyDown(key, target, f, e, b) ==
    IF key \in {"ArrowDown", "ArrowRight"} THEN Handled(Menu_next(f), e, b, TRUE)
    ELSE IF key \in {"ArrowLeft", "ArrowUp"} THEN Handled(Menu_prev(f), e, b, TRUE)
    ELSE IF key = "Home" THEN Handled(Menu_first(f), e, b, TRUE)
    ELSE IF key = "End" THEN Handled(Menu_last(f), e, b, TRUE)
    ELSE IF key = "Escape"
    THEN Handled(Menu_focus(f), [e EXCEPT ![0] = FALSE], b, TRUE)
    ELSE IF HasLetter(key) THEN Menu_search(key, f, e, b)
    ELSE Handled(f, e, b, FALSE)

RECURSIVE Listeners(_)
\* The components whose <ul> lies around the children of component c, from the
\* innermost to the Menu.
Listeners(c) == IF c = 0 THEN <<0>> ELSE <<c>> \o Listeners(menu[c])

\* The components whose onKeyDown a keydown on link n reaches as it bubbles: a
\* controller's own SubMenu first, then the lists around the link.
Path(n) ==
    IF \E m \in DOMAIN menu : menu[m] = n
    THEN <<n>> \o Listeners(menu[n])
    ELSE Listeners(menu[n])

RECURSIVE Bubble(_, _, _, _, _, _)
\* The event runs the handlers along the path until one stops its propagation;
\* each handler finds the focus where the handler before it left it.
Bubble(path, key, target, f, e, b) ==
    IF path = <<>> THEN Handled(f, e, b, FALSE)
    ELSE LET r == IF Head(path) = 0
                  THEN Menu_onKeyDown(key, target, f, e, b)
                  ELSE SubMenu_onKeyDown(Head(path), key, target, f, e, b)
         IN  IF r.stop THEN r
             ELSE Bubble(Tail(path), key, target, r.focus, r.expanded, r.buffer)

\* The keys delivered to the menu.
MenuKeys == {"ArrowDown", "ArrowLeft", "ArrowRight", "ArrowUp", "Home", "End", "Escape"}

\* No tree is mounted.
NoTree ==
    /\ owner = <<>> /\ groups = {} /\ expandable = <<>> /\ expanded = <<>>
    /\ error = {} /\ dom = {} /\ goal = 0

\* A Menu of n links is mounted: every link that has children is a SubMenu,
\* every other link a MenuItem; the expanded prop of each component is given or
\* not, each label is one of ls, no buffer is set, and f holds the focus.
MountMenu(n, ls, f) ==
    \E o \in Shapes(n) :
      \E x \in [{0} \cup {m \in 1..n : \E c \in 1..n : o[c] = m} -> BOOLEAN] :
        \E t \in [1..n -> ls] :
            /\ menu = o
            /\ menuExpanded = x
            /\ labels = t
            /\ buffer = [c \in DOMAIN x |-> <<>>]
            /\ focus = f
            /\ last = [key |-> "mount", target |-> Body, expanded |-> x,
                       to |-> None, error |-> FALSE, props |-> <<>>,
                       buffer |-> buffer]
            /\ NoTree /\ NoSlider /\ NoBar /\ NoCarousel

\* A Menu whose links all carry the same one-letter label, nothing focused.
InitMenu == \E n \in 1..MaxLinks : MountMenu(n, {<<"a">>}, Body)

\* The outcome of a Menu's or SubMenu's handler becomes the next state.
ApplyMenu(key, target, f, e, b) ==
    /\ focus' = f
    /\ menuExpanded' = e
    /\ buffer' = b
    /\ last' = [key |-> key, target |-> target, expanded |-> menuExpanded,
                to |-> None, error |-> FALSE, props |-> <<>>, buffer |-> buffer]
    /\ UNCHANGED <<tree, menu, labels, slider, bar, carousel>>

\* The user moves the focus to a link of the menu.
FocusLink(node) == ApplyMenu("focus", node, node, menuExpanded, buffer)

\* A keydown on the focused link, dispatched along its path.
KeyDownMenu(key) ==
    /\ focus.kind = "link"
    /\ LET r == Bubble(Path(focus.id), key, focus, focus, menuExpanded, buffer)
       IN  ApplyMenu(key, focus, r.focus, r.expanded, r.buffer)

\* A click on a SubMenu's controller: onClick is toggle.
SubMenu_onClick(S) ==
    ApplyMenu("click", SubMenu_controller(S), focus,
              SubMenu_toggle(S, menuExpanded), buffer)

NextMenu ==
    \/ \E node \in Links : FocusLink(node)
    \/ \E key \in MenuKeys : KeyDownMenu(key)
    \/ \E S \in DOMAIN menuExpanded \ {0} : SubMenu_onClick(S)

SpecMenu == InitMenu /\ [][NextMenu]_vars

\* A page that holds a Tree or a Menu.
SpecTreeOrMenu == (Init \/ InitMenu) /\ [][Next \/ NextMenu]_vars

----------------------------------------------------------------------------
(* Type-ahead: the user has tabbed to the Menu's first link and uses the    *)
(* keyboard and the SubMenus' controllers alone.                            *)

\* The largest number of links in a Menu the user types in.
MaxTyped == 2

\* The labels of the links.
Labels == {<<"a">>, <<"A", "b">>, <<"b">>}

\* The keys typed beside the navigation keys: two letters, and keys whose
\* names are longer than one letter.
TypeKeys == {"a", "B", "Tab", "Enter", "Shift", "Space", "PageUp"}

InitType == \E n \in 1..MaxTyped : MountMenu(n, Labels, Link(1))

NextType ==
    \/ \E key \in MenuKeys \cup TypeKeys : KeyDownMenu(key)
    \/ \E S \in DOMAIN menuExpanded \ {0} : SubMenu_onClick(S)

SpecType == InitType /\ [][NextType]_vars

----------------------------------------------------------------------------
(* Slider: a rail with a marker; the value is kept in a hidden input.      *)

\* The largest max and the largest step a Slider is given.
MaxValue == 12

MaxStep == 2

\* rail.clientWidth, in pixels.
RailWidth == 4

\* PageUp and PageDown move the value by ten steps.
PageSteps == 10

Marker == [kind |-> "marker", id |-> 0]

Rail == [kind |-> "rail", id |-> 0]

\* The props a Slider is constructed with; a prop that is left out reads as 0.
SliderProps ==
    [min : -1..2, max : 0..MaxValue, step : 0..MaxStep, value : {0, 1, MaxValue + 1}]

\* The constructor: toNum(props.x) || default.
Slider_constructor(props) ==
    [max |-> props.max,
     min |-> props.min,
     step |-> IF props.step = 0 THEN 1 ELSE props.step,
     defaultValue |-> IF props.value = 0 THEN props.min ELSE props.value]

\* A setter that stores the value as it is given.
Slider_value_unclamped(this, val) == val

\* set value(val) of the Slider this: Math.min(Math.max(val, this.min), this.max).
Slider_value(this, val) ==
    LET lower == IF val >= this.min THEN val ELSE this.min
    IN  IF lower <= this.max THEN lower ELSE this.max

\* The % of two numbers, b > 0: the remainder has the sign of a.
Remainder(a, b) == IF a >= 0 THEN a % b ELSE -((-a) % b)

\* The value a key's shortcut hands to the setter; a key without a shortcut
\* hands none and the value stays.
Slider_shortcuts(key) ==
    IF key \in {"ArrowDown", "ArrowLeft"} THEN Slider_value(slider, slider.value - slider.step)
    ELSE IF key \in {"ArrowRight", "ArrowUp"} THEN Slider_value(slider, slider.value + slider.step)
    ELSE IF key = "End" THEN Slider_value(slider, slider.max)
    ELSE IF key = "Home" THEN Slider_value(slider, slider.min)
    ELSE IF key = "PageDown" THEN Slider_value(slider, slider.value - PageSteps * slider.step)
    ELSE IF key = "PageUp" THEN Slider_value(slider, slider.value + PageSteps * slider.step)
    ELSE slider.value

\* onClick with e.pageX - rail.offsetLeft = x: the share of the range, rounded
\* to a multiple of the step.  The arithmetic is exact: computed and offset are
\* kept as multiples of 1 / RailWidth.
Slider_onClick_value(x) ==
    LET computed == (slider.max - slider.min) * x
        unit == slider.step * RailWidth
        offset == Remainder(computed, unit)
        rounded == IF offset = 0 THEN computed
                   ELSE IF 2 * offset >= unit THEN computed - offset + unit
                   ELSE computed - offset
    IN  Slider_value(slider, (rounded \div RailWidth) + slider.min)

SliderKeys ==
    {"ArrowDown", "ArrowLeft", "ArrowRight", "ArrowUp", "End", "Home",
     "PageDown", "PageUp", "A"}

\* The slider's event: the key or "click", the element, and in props the value
\* before the event (for the mount: the props).
SliderEvent(key, target, before) ==
    [key |-> key, target |-> target, expanded |-> <<>>, to |-> None,
     error |-> FALSE, props |-> before]

\* The Slider is constructed and mounted: componentDidMount sets the value to
\* the default value.
InitSlider ==
    \E props \in SliderProps :
        LET c == Slider_constructor(props)
        IN  /\ slider = [min |-> c.min, max |-> c.max, step |-> c.step,
                         value |-> Slider_value(c, c.defaultValue)]
            /\ focus = Body
            /\ last = SliderEvent("mount", Body, props)
            /\ NoTree /\ NoMenu /\ NoBar /\ NoCarousel

\* The user moves the focus to the marker.
FocusMarker ==
    /\ focus # Marker
    /\ focus' = Marker
    /\ last' = SliderEvent("focus", Marker, slider.value)
    /\ UNCHANGED <<tree, carousel, menu, menuExpanded, labels, buffer, slider, bar>>

Slider_onKeyDown(key) ==
    /\ focus = Marker
    /\ slider' = [slider EXCEPT !.value = Slider_shortcuts(key)]
    /\ last' = SliderEvent(key, Marker, slider.value)
    /\ UNCHANGED <<tree, carousel, menu, menuExpanded, labels, buffer, bar, focus>>

\* A click on the rail, or a mousemove while the marker is dragged, x pixels
\* from the rail's left edge; the marker takes the focus.
Slider_onClick(x) ==
    /\ slider' = [slider EXCEPT !.value = Slider_onClick_value(x)]
    /\ focus' = Marker
    /\ last' = SliderEvent("click", Rail, slider.value)
    /\ UNCHANGED <<tree, carousel, menu, menuExpanded, labels, buffer, bar>>

NextSlider ==
    \/ FocusMarker
    \/ \E key \in SliderKeys : Slider_onKeyDown(key)
    \/ \E x \in -1..(RailWidth + 1) : Slider_onClick(x)

SpecSlider == InitSlider /\ [][NextSlider]_vars

----------------------------------------------------------------------------
(* ProgressBar: a <div role="progressbar"> whose width render() computes.  *)

\* The width is capped at 100 percent.
PercentCap == 100

\* The values a ProgressBar is given: small ones, and two around the cap.
BarValues == 0..MaxValue \cup {PercentCap, PercentCap + 1}

\* render(): Math.min(Math.floor(Math.abs(range ? value / range : 0)), 100),
\* for a value that is not negative.
ProgressBar_render(props) ==
    LET range == props.max - props.min
        quotient == IF range = 0 THEN 0
                    ELSE props.value \div (IF range > 0 THEN range ELSE -range)
    IN  IF quotient <= PercentCap THEN quotient ELSE PercentCap

\* A ProgressBar is rendered with its props.
InitBar ==
    \E props \in [max : 0..MaxValue, min : 0..2, value : BarValues] :
        /\ bar = [max |-> props.max, min |-> props.min, value |-> props.value,
                  width |-> ProgressBar_render(props)]
        /\ focus = Body
        /\ last = [key |-> "mount", target |-> Body, expanded |-> <<>>,
                   to |-> None, error |-> FALSE, props |-> props]
        /\ NoTree /\ NoMenu /\ NoSlider /\ NoCarousel

\* The owner of the ProgressBar renders it again with a new value.
Rerender(value) ==
    /\ bar' = [bar EXCEPT !.value = value,
                          !.width = ProgressBar_render([bar EXCEPT !.value = value])]
    /\ last' = [last EXCEPT !.key = "render", !.props = bar]
    /\ UNCHANGED <<tree, carousel, menu, menuExpanded, labels, buffer, slider, focus>>

NextBar == \E value \in BarValues : Rerender(value)

SpecBar == InitBar /\ [][NextBar]_vars

----------------------------------------------------------------------------
(* Carousel.  render() starts an interval timer whenever state.playing is   *)
(* true and clears this.timer whenever it is false; every setState renders  *)
(* the component again.  A timer that is set and not cleared fires again    *)
(* and again, and each time selects the next item.                          *)

\* The largest number of items in a Carousel.
MaxSlides == 3

\* The largest number of setInterval calls followed.
MaxTimers == 3

\* The constructor: n items, state.playing from the autoplay prop; this.timer
\* is not set (0) and no item is current (0).
Carousel_constructor(n, autoplay) ==
    [length |-> n, playing |-> autoplay, timer |-> 0, timers |-> 0, live |-> {},
     current |-> 0]

\* render(): playing, setInterval returns a new id, kept in this.timer;
\* otherwise clearInterval(this.timer).
Carousel_render(c) ==
    IF c.playing
    THEN [c EXCEPT !.timer = c.timers + 1, !.timers = c.timers + 1,
                   !.live = c.live \cup {c.timers + 1}]
    ELSE [c EXCEPT !.live = c.live \ {c.timer}]

\* setState({ playing }) and the render that follows it.
Carousel_setState(c, playing) == Carousel_render([c EXCEPT !.playing = playing])

Carousel_animate(c) == Carousel_setState(c, TRUE)

Carousel_stop(c) == Carousel_setState(c, FALSE)

\* this.next: the item after the current one, the first after the last.
Carousel_next(c) == IF c.current # 0 /\ c.current < c.length THEN c.current + 1 ELSE 1

\* this.previous: the item before the current one, the last before the first.
Carousel_previous(c) == IF c.current > 1 THEN c.current - 1 ELSE c.length

\* select(e): the item the target's name asks for becomes the current one.
Carousel_select(c, name) ==
    [c EXCEPT !.current = IF name = "next" THEN Carousel_next(c)
                          ELSE Carousel_previous(c)]

\* componentDidMount: select(this.first), then animate() under autoplay.
Carousel_componentDidMount(c, autoplay) ==
    LET selected == [c EXCEPT !.current = 1]
    IN  IF autoplay THEN Carousel_animate(selected) ELSE selected

\* The carousel's event: its name and, in props, the carousel before it.
CarouselEvent(key, before) ==
    [key |-> key, target |-> Body, expanded |-> <<>>, to |-> None,
     error |-> FALSE, props |-> before]

\* A Carousel is constructed, rendered and mounted.
InitCarousel ==
    \E n \in 1..MaxSlides :
      \E autoplay \in BOOLEAN :
        /\ carousel = Carousel_componentDidMount(
                          Carousel_render(Carousel_constructor(n, autoplay)), autoplay)
        /\ focus = Body
        /\ last = CarouselEvent("mount", [length |-> n, autoplay |-> autoplay])
        /\ NoTree /\ NoMenu /\ NoSlider /\ NoBar

ApplyCarousel(key, c) ==
    /\ carousel' = c
    /\ last' = CarouselEvent(key, carousel)
    /\ UNCHANGED <<tree, menu, menuExpanded, labels, buffer, slider, bar, focus>>

\* A click on the play button, which is rendered while nothing plays.
ClickPlay ==
    /\ ~carousel.playing
    /\ carousel.timers < MaxTimers
    /\ ApplyCarousel("play", Carousel_animate(carousel))

\* A click on the stop button, which is rendered while the carousel plays.
ClickStop ==
    /\ carousel.playing
    /\ ApplyCarousel("stop", Carousel_stop(carousel))

\* A click on the previous or the next button.
ClickSelect(name) ==
    /\ ApplyCarousel(name, Carousel_select(carousel, name))

\* An interval timer that is set fires: its callback selects the next item.
Tick(t) ==
    /\ t \in carousel.live
    /\ ApplyCarousel("tick", Carousel_select(carousel, "next"))

NextCarousel ==
    \/ ClickPlay
    \/ ClickStop
    \/ \E name \in {"previous", "next"} : ClickSelect(name)
    \/ \E t \in 1..MaxTimers : Tick(t)

SpecCarousel == InitCarousel /\ [][NextCarousel]_vars

----------------------------------------------------------------------------
(* Properties *)

\* The TreeItem the last event was delivered to.
LastItem == last.target.id

KeyOnItem(key) == last.key = key /\ last.target.kind = "li"

KeyOnGroup(key) == last.key = key /\ last.target.kind = "ol"

\* Whether the event toggled the group g: Enter on its element or a click on it.
IsToggle(ev, g) == ev.key \in {"Enter", "click"} /\ ev.target = Element(g)

AllGroups == DOMAIN expanded

\* C1, as the specification states it: ArrowDown on a TreeItem whose group exists
\* and is expanded moves the focus to the first item of that group; otherwise, if
\* the item has a next sibling, to that sibling.
C1_StepDownDescends ==
    KeyOnItem("ArrowDown") =>
        IF LastItem \in groups /\ last.expanded[LastItem]
        THEN focus = firstChild(Ol(LastItem))
        ELSE nextSibling(last.target) # Null => focus = nextSibling(last.target)

\* C1, amended: ArrowDown on a TreeItem that has a next sibling and either no
\* group or an expanded group moves the focus to the next sibling; otherwise, if
\* the item has a group (not expanded, or expanded with no next sibling), the
\* focus moves to the group's own element, not to the group's first item.
C1_StepDown ==
    KeyOnItem("ArrowDown") =>
        IF nextSibling(last.target) # Null
           /\ (LastItem \notin groups \/ last.expanded[LastItem])
        THEN focus = nextSibling(last.target) /\ ~last.error
        ELSE LastItem \in groups => focus = Ol(LastItem) /\ ~last.error

\* ArrowDown on an item with an expanded, non-empty group went to the next sibling.
C1_Witness ==
    /\ KeyOnItem("ArrowDown")
    /\ LastItem \in groups
    /\ last.expanded[LastItem]
    /\ firstChild(Ol(LastItem)) # Null
    /\ nextSibling(last.target) # Null
    /\ focus = nextSibling(last.target)

\* C2: a navigation whose target does not exist (the handler hands null to
\* moveTo) completes without raising and leaves the focus where it was.
C2_OutOfRangeNoOp ==
    (last.key \in Keys /\ last.to = Null) =>
        (~last.error /\ focus = last.target)

\* C3, as the specification states it: after any sequence of keyboard commands
\* and clicks the focus is on a TreeItem or on the Tree root, never on a TreeGroup.
C3_FocusNeverOnGroup == focus.kind \in {"li", "tree"}

\* C3, amended: after any sequence of keyboard commands and clicks the focus is
\* on exactly one element of the tree: a TreeItem, the Tree root, or the element
\* of a TreeGroup.
C3_FocusInTree == focus \in Nodes

\* A keyboard command on a TreeItem left the focus on a TreeGroup's element.
C3_Witness ==
    /\ last.key \in Keys
    /\ last.target.kind = "li"
    /\ focus.kind = "ol"

RECURSIVE ClimbTarget(_)
\* The next sibling of the nearest item above i that has one; Null when none has.
ClimbTarget(i) ==
    IF owner[i] = 0 THEN Null
    ELSE IF nextSibling(Li(owner[i])) # Null THEN nextSibling(Li(owner[i]))
    ELSE ClimbTarget(owner[i])

\* C4: ArrowDown on an item that is the last of its group and has no group of its
\* own moves the focus to the next sibling of the nearest ancestor item that has
\* one, however far up; if no ancestor has one the focus does not move.
C4_StepDownClimbs ==
    (KeyOnItem("ArrowDown") /\ LastItem \notin groups
        /\ nextSibling(last.target) = Null) =>
        focus = (IF ClimbTarget(LastItem) # Null
                 THEN ClimbTarget(LastItem)
                 ELSE last.target)

\* C5, as the specification states it: ArrowUp on a TreeItem moves the focus to
\* the previous sibling if there is one, otherwise to the item that owns the
\* item's group (for a top-level item: the Tree root, or nowhere).
C5_StepUpToOwner ==
    KeyOnItem("ArrowUp") =>
        IF previousSibling(last.target) # Null
        THEN focus = previousSibling(last.target)
        ELSE IF owner[LastItem] # 0 THEN focus = Li(owner[LastItem])
        ELSE focus \in {TreeEl, last.target}

\* C5, amended: ArrowUp on a TreeItem moves the focus to the previous sibling if
\* there is one, otherwise to the element of the group that holds the item (the
\* TreeGroup's element, or the Tree root for a top-level item); ArrowUp on the
\* Tree root leaves the focus there.
C5_StepUp ==
    /\ KeyOnItem("ArrowUp") =>
        /\ ~last.error
        /\ IF previousSibling(last.target) # Null
           THEN focus = previousSibling(last.target)
           ELSE focus = Element(owner[LastItem])
    /\ (last.key = "ArrowUp" /\ last.target = TreeEl) =>
        (focus = TreeEl /\ ~last.error)

\* ArrowUp on the first item of a TreeGroup left the focus on the group's element.
C5_Witness ==
    /\ KeyOnItem("ArrowUp")
    /\ previousSibling(last.target) = Null
    /\ owner[LastItem] # 0
    /\ focus = Ol(owner[LastItem])

C7_CollapseLeft ==
    KeyOnItem("ArrowLeft") =>
        IF LastItem \in groups /\ expandable[LastItem] /\ last.expanded[LastItem]
        THEN ~expanded[LastItem] /\ focus = last.target
        ELSE focus = (IF previousSibling(last.target) # Null
                      THEN previousSibling(last.target)
                      ELSE Element(owner[LastItem]))

\* The elements a command on the group of item g is delivered to: the item that
\* owns the group, where the focus rests, or the group's own element.
CommandTargets(g) == IF g = 0 THEN {TreeEl} ELSE {Li(g), Ol(g)}

\* C8: with an expandable group expanded, ArrowLeft (on the owning item or on
\* the group) collapses it, and a following ArrowRight leaves it expanded again
\* with the focus on the group's first item.
C8_CollapseThenStepInto ==
    [][\A g \in AllGroups :
        /\ (last'.key = "ArrowLeft" /\ last'.target \in CommandTargets(g)
               /\ expandable[g] /\ expanded[g])
           => ~expanded'[g]
        /\ (last.key = "ArrowLeft" /\ last.target \in CommandTargets(g)
               /\ expandable[g] /\ last.expanded[g]
               /\ last'.key = "ArrowRight" /\ last'.target \in CommandTargets(g))
           => (expanded'[g] /\ focus' = firstChild(Element(g)) /\ ~last'.error)
      ]_vars

\* C9: a group is expandable exactly when it has two or more items; no event
\* changes the expanded state of a group that is not expandable, and an empty
\* group is never expanded.
C9_Expandability ==
    \A g \in AllGroups :
        /\ expandable[g] <=> Cardinality(ChildItems(g)) >= 2
        /\ ~expandable[g] => expanded[g] = last.expanded[g]
        /\ ChildItems(g) = {} => ~expanded[g]

\* A toggle (Enter or click) was applied to an empty TreeGroup.
C9_Witness ==
    \E g \in groups :
        /\ IsToggle(last, g)
        /\ ChildItems(g) = {}
        /\ ~expanded[g]

\* C10: a toggle (Enter or click) of an expandable group inverts its expanded
\* flag, and a second toggle in succession restores the flag to its value before
\* the first.
C10_ToggleRoundTrip ==
    [][\A g \in AllGroups :
        (expandable[g] /\ IsToggle(last', g) /\ last'.expanded = expanded) =>
            /\ expanded'[g] = ~expanded[g]
            /\ IsToggle(last, g) => expanded'[g] = last.expanded[g]
      ]_vars

\* A toggle of a collapsed expandable TreeGroup expanded it.
C10_Witness ==
    \E g \in groups :
        /\ IsToggle(last, g)
        /\ expandable[g]
        /\ ~last.expanded[g]
        /\ expanded[g]

\* C11: a group with zero or one items is treated as always expanded, whatever
\* its stored flag or its expanded hint: ArrowDown on the item that owns such a
\* group, when the item has a next sibling, moves the focus to that sibling, as it
\* does for an expanded group.
C11_SmallGroupsAlwaysExpanded ==
    (KeyOnItem("ArrowDown") /\ LastItem \in groups
        /\ Cardinality(ChildItems(LastItem)) <= 1
        /\ nextSibling(last.target) # Null) =>
        focus = nextSibling(last.target)

RECURSIVE Below(_, _)
\* Whether the group of item e is the group of item g or lies inside it.
Below(e, g) ==
    IF e = g THEN TRUE
    ELSE IF e = 0 THEN FALSE
    ELSE Below(owner[e], g)

\* C12: a child that is neither a TreeItem nor a TreeGroup, at any nesting level
\* below a TreeGroup, makes the TreeGroup render the error heading and no part
\* of its tree: none of its <ol> and <li> elements is produced.
C12_InvalidChildNoTree ==
    \A g \in groups :
        (Li(g) \in dom /\ \E e \in error : Below(e, g)) =>
            /\ ErrorEl(g) \in dom
            /\ Ol(g) \notin dom
            /\ \A i \in Items : Below(owner[i], g) => Li(i) \notin dom

\* C13: ArrowDown and ArrowUp, on a TreeItem, a TreeGroup or the Tree, change no
\* expanded flag; no event changes which items a group holds or their order; an
\* expanded flag changes only by a toggle (Enter or a click on the group), by
\* Step-Into (ArrowRight on the group) or by Collapse (ArrowLeft on the group).
C13_Frame ==
    [][/\ owner' = owner /\ groups' = groups /\ expandable' = expandable
       /\ last'.key \in {"ArrowDown", "ArrowUp"} => expanded' = expanded
       /\ expanded' # expanded =>
            /\ last'.key \in {"Enter", "click", "ArrowRight", "ArrowLeft"}
            /\ last'.target.kind \in {"ol", "tree"}
      ]_vars

\* ArrowUp on the element of an expanded expandable TreeGroup moved the focus to
\* the owning item and left the group expanded.
C13_Witness ==
    /\ KeyOnGroup("ArrowUp")
    /\ expandable[last.target.id]
    /\ last.expanded[last.target.id]
    /\ expanded = last.expanded
    /\ focus = Li(last.target.id)

\* The keys some shortcuts map of the tree has an entry for.
Recognized == {"ArrowDown", "ArrowLeft", "ArrowRight", "ArrowUp", "Enter"}

\* C14: a key the element's shortcuts do not map (for a TreeGroup and the Tree:
\* neither a direction key nor Enter; for a TreeItem: not a direction key),
\* delivered to a TreeItem, a TreeGroup or the Tree, leaves the focus and every
\* expanded flag as they were and raises no error.
C14_UnrecognizedKey ==
    (\/ last.key \in Keys \ Recognized /\ last.target.kind \in {"li", "ol", "tree"}
     \/ KeyOnItem("Enter")) =>
        /\ focus = last.target
        /\ expanded = last.expanded
        /\ ~last.error

\* The key A was delivered to a TreeItem that has an expanded expandable group
\* and a next sibling, and the focus is still on the item.
C14_Witness ==
    /\ KeyOnItem("A")
    /\ LastItem \in groups
    /\ expandable[LastItem] /\ expanded[LastItem]
    /\ nextSibling(last.target) # Null
    /\ focus = last.target

\* C15: when the tree is first rendered, a TreeGroup with more than one TreeItem
\* is expanded (aria-expanded "true") unless its expanded attribute is "false",
\* and then it is collapsed (aria-expanded "false").
C15_InitiallyExpanded ==
    last.key = "mount" =>
        \A g \in groups :
            Cardinality(ChildItems(g)) > 1 =>
                /\ expanded[g] <=> last.props[g] # "false"
                /\ AriaExpanded(g) = (IF last.props[g] = "false" THEN "false" ELSE "true")

\* A tree was mounted with a TreeGroup of two or more items and expanded="false",
\* and the group is collapsed.
C15_Witness ==
    /\ last.key = "mount"
    /\ \E g \in groups :
          /\ Cardinality(ChildItems(g)) > 1
          /\ last.props[g] = "false"
          /\ ~expanded[g]
          /\ AriaExpanded(g) = "false"

\* C20: on a TreeItem that has no group and no next sibling, ArrowDown and
\* ArrowRight both move the focus to the next sibling of the item that owns the
\* item's group, exactly one level up, whenever that sibling exists.
C20_OneLevelClimb ==
    (last.key \in {"ArrowDown", "ArrowRight"} /\ last.target.kind = "li"
        /\ LastItem \notin groups
        /\ nextSibling(last.target) = Null
        /\ owner[LastItem] # 0
        /\ nextSibling(Li(owner[LastItem])) # Null) =>
        /\ focus = nextSibling(Li(owner[LastItem]))
        /\ last.to = focus
        /\ expanded = last.expanded
        /\ ~last.error

\* ArrowRight on the last item of a group, an item without a group of its own,
\* moved the focus to the next sibling of the group's owner.
C20_Witness ==
    /\ KeyOnItem("ArrowRight")
    /\ LastItem \notin groups
    /\ nextSibling(last.target) = Null
    /\ owner[LastItem] # 0
    /\ previousSibling(last.target) # Null
    /\ focus = nextSibling(Li(owner[LastItem]))
    /\ focus # Null

\* The links in the same list as link n, and whether n is a SubMenu's controller.
Siblings(n) == {m \in DOMAIN menu : menu[m] = menu[n]}

IsSubMenu(n) == \E m \in DOMAIN menu : menu[m] = n

KeyOnLink(key) == last.key = key /\ last.target.kind = "link"

\* The link after n in its list, the first of the list after the last one.
After(n) ==
    LET later == {m \in Siblings(n) : m > n}
    IN  Link(IF later = {} THEN Min(Siblings(n)) ELSE Min(later))

\* The link before n in its list, the last of the list before the first one.
Before(n) ==
    LET earlier == {m \in Siblings(n) : m < n}
    IN  Link(IF earlier = {} THEN Max(Siblings(n)) ELSE Max(earlier))

\* C16, as the specification states it: in a Menu and in a SubMenu, ArrowDown
\* on the last item of a list moves the focus to the first, ArrowUp on the first
\* to the last, and at any other position the focus moves to the adjacent item.
C16_WrapAroundEverywhere ==
    /\ KeyOnLink("ArrowDown") => focus = After(last.target.id)
    /\ KeyOnLink("ArrowUp") => focus = Before(last.target.id)

\* C16, amended: ArrowUp moves the focus to the previous item of the list, from
\* the first to the last; ArrowDown on a MenuItem moves it to the next item, from
\* the last to the first; ArrowDown on the controller of a SubMenu expands the
\* SubMenu and moves the focus to its first item.
C16_WrapAround ==
    /\ KeyOnLink("ArrowDown") =>
          IF IsSubMenu(last.target.id)
          THEN /\ focus = Link(Min({m \in DOMAIN menu : menu[m] = last.target.id}))
               /\ menuExpanded[last.target.id]
          ELSE focus = After(last.target.id)
    /\ KeyOnLink("ArrowUp") => focus = Before(last.target.id)

\* ArrowDown on the last MenuItem of a SubMenu moved the focus to the first of
\* its three items.
C16_Witness ==
    /\ KeyOnLink("ArrowDown")
    /\ ~IsSubMenu(last.target.id)
    /\ menu[last.target.id] # 0
    /\ Cardinality(Siblings(last.target.id)) = 3
    /\ last.target.id = Max(Siblings(last.target.id))
    /\ focus = Link(Min(Siblings(last.target.id)))

\* C17, as the specification states it: Escape with the focus on an item inside
\* an expandable group collapses that group and moves the focus to the item that
\* owns it, in a SubMenu (a MenuItem of its list: expanded false, focus on the
\* controller) and in the Tree alike.
C17_DismissEverywhere ==
    /\ (KeyOnLink("Escape") /\ ~IsSubMenu(last.target.id)
            /\ menu[last.target.id] # 0) =>
          /\ ~menuExpanded[menu[last.target.id]]
          /\ focus = SubMenu_controller(menu[last.target.id])
    /\ (KeyOnItem("Escape") /\ owner[LastItem] # 0
            /\ expandable[owner[LastItem]]) =>
          /\ ~expanded[owner[LastItem]]
          /\ focus = Li(owner[LastItem])

\* C17, amended: Escape with the focus on a MenuItem inside a SubMenu sets that
\* SubMenu's expanded to false and moves the focus to its controller; Escape on
\* a SubMenu's controller closes that SubMenu and keeps the focus on the
\* controller; the Tree has no Escape command: on a TreeItem, a TreeGroup or
\* the Tree the key changes neither the focus nor any expanded flag.
C17_Dismiss ==
    /\ (KeyOnLink("Escape") /\ ~IsSubMenu(last.target.id)
            /\ menu[last.target.id] # 0) =>
          /\ ~menuExpanded[menu[last.target.id]]
          /\ focus = SubMenu_controller(menu[last.target.id])
          /\ \A S \in DOMAIN menuExpanded \ {menu[last.target.id]} :
                menuExpanded[S] = last.expanded[S]
    /\ (KeyOnLink("Escape") /\ IsSubMenu(last.target.id)) =>
          /\ ~menuExpanded[last.target.id]
          /\ focus = last.target
    /\ (last.key = "Escape" /\ last.target.kind \in {"li", "ol", "tree"}) =>
          /\ focus = last.target
          /\ expanded = last.expanded

\* Escape on a MenuItem inside an expanded SubMenu closed the SubMenu and moved
\* the focus to its controller.
C17_Witness ==
    /\ KeyOnLink("Escape")
    /\ ~IsSubMenu(last.target.id)
    /\ menu[last.target.id] # 0
    /\ last.expanded[menu[last.target.id]]
    /\ ~menuExpanded[menu[last.target.id]]
    /\ focus = SubMenu_controller(menu[last.target.id])

C19_WidthIsShareOfRange ==
    (bar.min = 0 /\ bar.max > 0 /\ (PercentCap * bar.value) % bar.max = 0) =>
        bar.width = (IF bar.value >= bar.max
                     THEN PercentCap
                     ELSE (PercentCap * bar.value) \div bar.max)

\* C21: with the focus on a TreeGroup, ArrowUp moves the focus to the item that
\* owns the group, and ArrowDown moves it to the next sibling of that item, when
\* the item has one; neither changes an expanded flag.
C21_GroupUpDown ==
    /\ KeyOnGroup("ArrowUp") =>
          /\ focus = Li(last.target.id)
          /\ expanded = last.expanded
          /\ ~last.error
    /\ (KeyOnGroup("ArrowDown") /\ nextSibling(Li(last.target.id)) # Null) =>
          /\ focus = nextSibling(Li(last.target.id))
          /\ expanded = last.expanded
          /\ ~last.error

\* ArrowDown on the element of a collapsed expandable TreeGroup moved the focus
\* to the next sibling of the owning item, and the group is still collapsed.
C21_Witness ==
    /\ KeyOnGroup("ArrowDown")
    /\ expandable[last.target.id]
    /\ ~last.expanded[last.target.id]
    /\ ~expanded[last.target.id]
    /\ nextSibling(Li(last.target.id)) # Null
    /\ focus = nextSibling(Li(last.target.id))

\* C22: ArrowDown on a TreeItem whose child group is collapsed moves the focus to
\* the element of that group, not to the item's next sibling, and leaves every
\* expanded flag as it was.
C22_DownToCollapsedGroup ==
    (KeyOnItem("ArrowDown") /\ LastItem \in groups /\ ~last.expanded[LastItem]) =>
        /\ focus = Ol(LastItem)
        /\ expanded = last.expanded
        /\ ~last.error

\* ArrowDown on an item that has a next sibling and a collapsed group of at
\* least two items put the focus on the group, which is still collapsed.
C22_Witness ==
    /\ KeyOnItem("ArrowDown")
    /\ LastItem \in groups
    /\ expandable[LastItem]
    /\ ~last.expanded[LastItem]
    /\ nextSibling(last.target) # Null
    /\ focus = Ol(LastItem)
    /\ ~expanded[LastItem]

\* C23: ArrowLeft on a focused TreeGroup collapses the group when it is
\* expanded; when the group is already collapsed the focus moves up one
\* treeitem, to the item that owns the group.
C23_LeftOnGroup ==
    KeyOnGroup("ArrowLeft") =>
        IF last.expanded[last.target.id]
        THEN ~expanded[last.target.id]
        ELSE focus = Li(last.target.id)

\* Whether TreeItem i lies inside the TreeGroup of item g, at any depth.
Inside(i, g) == Below(owner[i], g)

\* C26: after any sequence of keyboard commands and clicks the focused TreeItem
\* is never inside a TreeGroup whose expanded state is false; in particular a
\* group that is collapsed while it contains the focus no longer contains it.
C26_FocusOutsideCollapsed ==
    focus.kind = "li" =>
        \A g \in groups : ~expanded[g] => ~Inside(focus.id, g)

\* C25: from the focus on the tree's first root item, whatever the groups'
\* initial expanded flags, every TreeItem of the tree receives the focus after
\* finitely many arrow keys: the user who walks towards it gets there.
C25_Reachable == <>(focus = Li(goal))

\* The goal, an item of a group that was collapsed when the user reached it,
\* received the focus by ArrowRight on that group.
C25_Witness ==
    /\ goal > 1
    /\ focus = Li(goal)
    /\ KeyOnGroup("ArrowRight")
    /\ last.target = Ol(owner[goal])
    /\ expandable[owner[goal]]
    /\ ~last.expanded[owner[goal]]

\* The SubMenus whose list holds the link n, at any depth.
Around(n) == {S \in DOMAIN menuExpanded \ {0} : S # n /\ OnPath(menu, S, n)}

\* A key of TypeKeys was pressed on a link.
Typed == last.key \in TypeKeys /\ last.target.kind = "link"

\* C24: for every letter typed in the Menu, if the text of any item of the
\* Menu starts, whatever the case, with the Menu's buffer followed by the
\* letter, the focus is on such an item afterwards and the buffer is the
\* extended string; the buffer is emptied only when no item matches.
C24_TypeAhead ==
    (Typed /\ SingleLetter(last.key)) =>
        LET match == last.buffer[0] \o Chars(last.key)
            matching == {n \in DOMAIN menu :
                            menu[n] = 0 /\ StartsWith(textContent(n), match)}
        IN  IF matching # {}
            THEN focus \in {Link(n) : n \in matching} /\ buffer[0] = match
            ELSE buffer[0] = <<>>

\* C27: a letter typed on an item inside a SubMenu is acted on by one level
\* only: the focus and the buffers are as the handler of the innermost SubMenu
\* alone leaves them; no enclosing list runs a search of its own.
C27_OneLevelActs ==
    (Typed /\ SingleLetter(last.key) /\ menu[last.target.id] # 0) =>
        LET r == SubMenu_onKeyDown(Head(Path(last.target.id)), last.key,
                     last.target, last.target, last.expanded, last.buffer)
        IN  focus = r.focus /\ buffer = r.buffer

\* C28: whenever the focus is on an item inside a SubMenu's list, that
\* SubMenu's expanded state is true.
C28_FocusInExpanded ==
    focus.kind = "link" => \A S \in Around(focus.id) : menuExpanded[S]

\* C29: a key whose name is not exactly one letter (Tab, Enter, Shift, ...), in the
\* Menu as in a SubMenu, starts no search: it leaves the focus where it was and
\* every type-ahead buffer as it was.
C29_OnlyLetterKeys ==
    (Typed /\ ~SingleLetter(last.key)) =>
        focus = last.target /\ buffer = last.buffer

\* C30: stop is effective: an interval timer advances the current item only
\* while the carousel is playing, so that after stop no timer-driven advance
\* occurs until play, however the animation was started.
C30_StopIsEffective == last.key = "tick" => carousel.playing

====
